---- MODULE Spec2Model ----
(***************************************************************************)
(* State-machine model of the user-account backend: the users and tokens   *)
(* tables, the clock and the cleanup timer, with one action per HTTP        *)
(* handler and per timer callback.                                         *)
(*                                                                         *)
(* Time is counted in hours.  Strings produced by crypto.randomBytes and   *)
(* bcrypt salts are modelled as fresh draws (a draw counter): two draws    *)
(* never collide.                                                          *)
(***************************************************************************)
EXTENDS Integers, Sequences, FiniteSets, TLC

VARIABLES
    users,        \* rows of the users table
    userSeq,      \* AUTOINCREMENT sequence of the users table
    tokens,       \* rows of the tokens table
    now,          \* Date.now(), in hours
    nextCleanup,  \* time at which the cleanup timer is due next
    rand,         \* number of random draws made so far
    last,         \* the request or callback that ran last, with its outcome
    pending,      \* the calls of verify in flight, each with its position
    process       \* the Node process: its interval timers, its unhandled rejections

vars == <<users, userSeq, tokens, now, nextCleanup, rand, last, pending, process>>

----------------------------------------------------------------------------
(* Bounds of the model *)

\* Random draws (tokens, secrets, salts) the model follows.
MaxRand == 5
\* Days of clock time the model follows.
MaxDays == 12
\* Calls of verify that may be in flight together.
MaxInFlight == 2
\* Tokens held at a time while calls of verify interleave.
MaxSessions == 1
\* Runs of the cleanup that the store may reject.
MaxRejections == 2

----------------------------------------------------------------------------
(* Program constants, in hours *)

Hour == 1
Day == 24 * Hour
\* 7 * 24 * 60 * 60 * 1000 ms
OneWeek == 7 * Day
\* 60 * 60 * 1000 ms
CleanupInterval == 1 * Hour
TokenLength == 32
SecretLength == 16
\* The elapsed times the clock advances by: four days, one week.
TickSteps == {4 * Day, OneWeek}

----------------------------------------------------------------------------
(* Values *)

NULL == [len |-> 0, id |-> 0]

\* crypto.randomBytes(length).toString('hex').substr(0, length): a string of
\* `length` hex digits; `draw` identifies the random bytes drawn.
randomString(length, draw) == [len |-> length, id |-> draw]

\* The n-th fresh draw of the running step.
Draw(n) == rand + n

\* bcrypt.hash(password, 10): a salted one-way hash.
bcryptHash(password, salt) == [pw |-> password, salt |-> salt]

\* bcrypt.compare(password, hash)
bcryptCompare(password, hash) == hash.pw = password

ValidEmails == {"user1@mail.com", "user2@mail.com"}
InvalidEmail == "mail.com"
ValidPasswords == {"P4ssword"}
InvalidPassword == "abcd"
\* A valid password other than the one of the registration.
NewPassword == "N3w-P4ssword"

ValidUsername == "user1"
UpdatedUsername == "user1-updated"
InvalidUsername == "use"

\* express-validator: notEmpty, isLength({min: 4, max: 32})
checkUsername(username) == username \in {ValidUsername, UpdatedUsername}

\* express-validator: isEmail()
isEmail(email) == email \in ValidEmails

\* express-validator: notEmpty, isLength({min: 6}), lower + upper + digit
checkPassword(password) == password \in ValidPasswords \cup {NewPassword}

\* A string no draw ever produced ('abcd', 'some-invalid-token', '123').
Bogus == [len |-> 4, id |-> 0]

\* The Authorization header: 'Bearer ' followed by the token, or none.
NoAuthorization == <<>>
Bearer(token) == <<"Bearer ", token>>
\* authorization.substring(7)
substring7(authorization) == authorization[2]
\* The token a request presents, for the record of the step.
Presented(authorization) ==
    IF authorization = NoAuthorization THEN NULL ELSE substring7(authorization)

NoUser == [id |-> 0]
NoToken == [userId |-> 0]

\* Model.findOne: the first row (lowest id) among the matches, or null.
findOne(rows) ==
    IF rows = {} THEN NoUser
    ELSE CHOOSE r \in rows : \A s \in rows : r.id <= s.id

----------------------------------------------------------------------------
(* The record of the step that ran last *)

\* op: the handler; error: the exception that reached the ErrorHandler; arg:
\* the token or secret of the request, or the one it issued; user: the id of
\* the user concerned; auth: the id of req.authenticatedUser; svc: the service
\* call the handler made; mail: what became of the message handed to the
\* transporter; destroyed: the number of token rows the step deleted.
Done(op, error, arg, user, auth, svc, mail, destroyed) ==
    [op |-> op, error |-> error, arg |-> arg, user |-> user, auth |-> auth,
     svc |-> svc, mail |-> mail, destroyed |-> destroyed]

Idle == Done("start", "none", NULL, 0, 0, "none", "none", 0)

----------------------------------------------------------------------------
(* HTTP statuses *)

StatusOk == 200
ValidationExceptionStatus == 400
InvalidTokenExceptionStatus == 400
AuthExceptionStatus == 401
ForbiddenExceptionStatus == 403
NotFoundExceptionStatus == 404
EmailExceptionStatus == 502
InternalErrorStatus == 500

\* ErrorHandler: res.status(err.status)
StatusOf(error) ==
    CASE error = "none" -> StatusOk
      [] error = "ValidationException" -> ValidationExceptionStatus
      [] error = "InvalidTokenException" -> InvalidTokenExceptionStatus
      [] error = "AuthException" -> AuthExceptionStatus
      [] error = "ForbiddenException" -> ForbiddenExceptionStatus
      [] error = "NotFoundException" -> NotFoundExceptionStatus
      [] error = "EmailException" -> EmailExceptionStatus
      [] OTHER -> InternalErrorStatus

----------------------------------------------------------------------------
(* TokenService *)

TokenRow(token, userId, lastUsedAt) ==
    [token |-> token, userId |-> userId, lastUsedAt |-> lastUsedAt]

\* createToken, were the row created without lastUsedAt: new Date().
createToken_EpochDate(user) ==
    LET token == randomString(TokenLength, Draw(1))
    IN  [error |-> "none",
         token |-> token,
         tokens |-> tokens \cup {TokenRow(token, user.id, 0)}]

\* createToken, were the token table without the foreign key on userId.
createToken_NoForeignKey(user) ==
    LET token == randomString(TokenLength, Draw(1))
    IN  [error |-> "none",
         token |-> token,
         tokens |-> tokens \cup {TokenRow(token, user.id, now)}]

\* createToken: Token.create({ token, userId: user.id, lastUsedAt: new Date() })
\* userId is the foreign key of User.hasMany(Token): the insert is rejected
\* when no user row has the id.
createToken(user) ==
    LET token == randomString(TokenLength, Draw(1))
    IN  IF \E u \in users : u.id = user.id
        THEN [error |-> "none",
              token |-> token,
              tokens |-> tokens \cup {TokenRow(token, user.id, now)}]
        ELSE [error |-> "ForeignKeyConstraintError",
              token |-> NULL,
              tokens |-> tokens]

\* The lookup of verify, were lastUsedAt not part of the where clause.
verifyFind_NoExpiry(token) ==
    LET found == {t \in tokens : t.token = token}
    IN  IF found = {} THEN NoToken ELSE CHOOSE t \in found : TRUE

\* The lookup of verify, were the comparison Op.gte.
verifyFind_Gte(token) ==
    LET oneWeekAgo == now - OneWeek
        found == {t \in tokens : t.token = token /\ t.lastUsedAt >= oneWeekAgo}
    IN  IF found = {} THEN NoToken ELSE CHOOSE t \in found : TRUE

\* The lookup of verify, were the rows good for two weeks.
verifyFind_TwoWeeks(token) ==
    LET twoWeeksAgo == now - 2 * OneWeek
        found == {t \in tokens : t.token = token /\ t.lastUsedAt > twoWeeksAgo}
    IN  IF found = {} THEN NoToken ELSE CHOOSE t \in found : TRUE

\* The row verify looks up: token matches and lastUsedAt > oneWeekAgo.
verifyFind(token) ==
    LET oneWeekAgo == now - OneWeek
        found == {t \in tokens : t.token = token /\ t.lastUsedAt > oneWeekAgo}
    IN  IF found = {} THEN NoToken ELSE CHOOSE t \in found : TRUE

\* verify, were the row not saved with a new lastUsedAt.
verify_NoSave(token) ==
    LET oneWeekAgo == now - OneWeek
        found == {t \in tokens : t.token = token /\ t.lastUsedAt > oneWeekAgo}
        tokenInDb == IF found = {} THEN NoToken ELSE CHOOSE t \in found : TRUE
    IN  IF tokenInDb = NoToken
        THEN [error |-> "TypeError", id |-> 0, tokens |-> tokens]
        ELSE [error |-> "none", id |-> tokenInDb.userId, tokens |-> tokens]

\* verify, were an expired row told from a missing one.
verify_TellsExpired(token) ==
    LET tokenInDb == verifyFind(token)
    IN  IF tokenInDb = NoToken
        THEN [error |-> IF \E t \in tokens : t.token = token
                        THEN "TokenExpired" ELSE "TypeError",
              id |-> 0, tokens |-> tokens]
        ELSE [error |-> "none", id |-> tokenInDb.userId,
              tokens |-> (tokens \ {tokenInDb}) \cup
                         {[tokenInDb EXCEPT !.lastUsedAt = now]}]

\* verify: a null row makes the assignment to lastUsedAt throw; otherwise the
\* row is saved with lastUsedAt = new Date() and its userId is returned.
verify(token) ==
    LET tokenInDb == verifyFind(token)
    IN  IF tokenInDb = NoToken
        THEN [error |-> "TypeError", id |-> 0, tokens |-> tokens]
        ELSE [error |-> "none", id |-> tokenInDb.userId,
              tokens |-> (tokens \ {tokenInDb}) \cup
                         {[tokenInDb EXCEPT !.lastUsedAt = now]}]

\* deleteToken, were the row left in place.
deleteToken_KeepsRow(table, token) == table

\* deleteToken: Token.destroy({ where: { token } })
deleteToken(table, token) == {t \in table : t.token # token}

\* clearTokens, were the rows destroyed without a where clause.
clearTokens_EveryUser(table, userId) == {}

\* clearTokens, were the where clause to match no row.
clearTokens_NoMatch(table, userId) == table

\* clearTokens: Token.destroy({ where: { userId } })
clearTokens(table, userId) == {t \in table : t.userId # userId}

\* The callback of scheduleCleanup, were the comparison Op.lte.
cleanup_Lte ==
    LET oneWeekAgo == now - OneWeek
    IN  {t \in tokens : ~(t.lastUsedAt <= oneWeekAgo)}

\* The callback of scheduleCleanup: Token.destroy where lastUsedAt < oneWeekAgo
cleanup ==
    LET oneWeekAgo == now - OneWeek
    IN  {t \in tokens : ~(t.lastUsedAt < oneWeekAgo)}

\* middleware/tokenAuthentication: with an Authorization header, verify the
\* token and set req.authenticatedUser; a failed verify leaves the request
\* anonymous.  Returns the authenticated user's id (0: none) and the table.
tokenAuthentication(authorization) ==
    IF authorization = NoAuthorization
    THEN [id |-> 0, tokens |-> tokens]
    ELSE LET r == verify(substring7(authorization))
         IN  [id |-> r.id, tokens |-> r.tokens]

----------------------------------------------------------------------------
(* UserService *)

findByEmail(email) == findOne({u \in users : u.email = email})

findByPasswordResetToken(passwordResetToken) ==
    findOne({u \in users : u.passwordResetToken = passwordResetToken})

\* User.create, were the email column not unique.
UserCreate_NotUnique(user, fault) ==
    IF fault = "insert"
    THEN NoUser
    ELSE [id |-> userSeq + 1,
          username |-> user.username,
          email |-> user.email,
          password |-> user.password,
          activationToken |-> user.activationToken,
          passwordResetToken |-> NULL,
          inactive |-> IF "inactive" \in DOMAIN user THEN user.inactive ELSE TRUE]

\* User.create(user, { transaction }): the row as inserted, with the model's
\* defaults (inactive: true); the insert fails on a store error or when the
\* email is taken (unique: true).
UserCreate(user, fault) ==
    IF fault = "insert" \/ \E u \in users : u.email = user.email
    THEN NoUser
    ELSE [id |-> userSeq + 1,
          username |-> user.username,
          email |-> user.email,
          password |-> user.password,
          activationToken |-> user.activationToken,
          passwordResetToken |-> NULL,
          inactive |-> IF "inactive" \in DOMAIN user THEN user.inactive ELSE TRUE]

\* EmailService.sendActivationToken / sendPasswordReset: transporter.sendMail
\* delivers the message or throws.
sendMail(email, token, fault) == IF fault = "mail" THEN "rejected" ELSE "delivered"

\* save, were the insert made outside the transaction: a failed mail leaves
\* the row behind.
save_NoTransaction(body, fault) ==
    LET hash == bcryptHash(body.password, rand + 1)
        user == [username |-> body.username, email |-> body.email, password |-> hash,
                 activationToken |-> randomString(SecretLength, rand + 2)]
        row == IF fault = "insert" \/ \E u \in users : u.email = user.email
               THEN NoUser
               ELSE [id |-> userSeq + 1, username |-> user.username,
                     email |-> user.email,
                     password |-> user.password,
                     activationToken |-> user.activationToken,
                     passwordResetToken |-> NULL, inactive |-> TRUE]
        mail == IF fault = "mail" THEN "rejected" ELSE "delivered"
    IN  IF row = NoUser
        THEN [error |-> "EmailException", users |-> users, mail |-> "none", row |-> NoUser]
        ELSE IF mail # "delivered"
        THEN [error |-> "EmailException", users |-> users \cup {row}, mail |-> mail,
              row |-> NoUser]
        ELSE IF fault = "commit"
        THEN [error |-> "Error", users |-> users, mail |-> mail, row |-> NoUser]
        ELSE [error |-> "none", users |-> users \cup {row}, mail |-> mail, row |-> row]

\* save, were a failed commit to leave the inserted row behind.
save_CommitKeepsRow(body, fault) ==
    LET hash == bcryptHash(body.password, rand + 1)
        user == [username |-> body.username, email |-> body.email, password |-> hash,
                 activationToken |-> randomString(SecretLength, rand + 2)]
        row == IF fault = "insert" \/ \E u \in users : u.email = user.email
               THEN NoUser
               ELSE [id |-> userSeq + 1, username |-> user.username,
                     email |-> user.email,
                     password |-> user.password,
                     activationToken |-> user.activationToken,
                     passwordResetToken |-> NULL, inactive |-> TRUE]
        mail == IF fault = "mail" THEN "rejected" ELSE "delivered"
    IN  IF row = NoUser
        THEN [error |-> "EmailException", users |-> users, mail |-> "none", row |-> NoUser]
        ELSE IF mail # "delivered"
        THEN [error |-> "EmailException", users |-> users, mail |-> mail, row |-> NoUser]
        ELSE IF fault = "commit"
        THEN [error |-> "Error", users |-> users \cup {row}, mail |-> mail,
              row |-> NoUser]
        ELSE [error |-> "none", users |-> users \cup {row}, mail |-> mail, row |-> row]

\* save, were the row created from the whole request body.
save_WholeBody(body, fault) ==
    LET hash == bcryptHash(body.password, rand + 1)
        user == [username |-> body.username, email |-> body.email, password |-> hash,
                 activationToken |-> randomString(SecretLength, rand + 2),
                 inactive |-> body.inactive]
        row == UserCreate(user, fault)
        mail == sendMail(body.email, user.activationToken, fault)
    IN  IF row = NoUser
        THEN [error |-> "EmailException", users |-> users, mail |-> "none", row |-> NoUser]
        ELSE IF mail # "delivered"
        THEN [error |-> "EmailException", users |-> users, mail |-> mail, row |-> NoUser]
        ELSE IF fault = "commit"
        THEN [error |-> "Error", users |-> users, mail |-> mail, row |-> NoUser]
        ELSE [error |-> "none", users |-> users \cup {row}, mail |-> mail, row |-> row]

\* save: insert inside a transaction, send the activation mail, commit; any
\* throw rolls back and surfaces as EmailException.  A failed commit leaves the
\* transaction finished, so the rollback in the catch block throws in its turn
\* and that error is the one that escapes.
save(body, fault) ==
    LET hash == bcryptHash(body.password, Draw(1))
        user == [username |-> body.username, email |-> body.email, password |-> hash,
                 activationToken |-> randomString(SecretLength, Draw(2))]
        row == UserCreate(user, fault)
        mail == sendMail(body.email, user.activationToken, fault)
    IN  IF row = NoUser
        THEN [error |-> "EmailException", users |-> users, mail |-> "none", row |-> NoUser]
        ELSE IF mail # "delivered"
        THEN [error |-> "EmailException", users |-> users, mail |-> mail, row |-> NoUser]
        ELSE IF fault = "commit"
        THEN [error |-> "Error", users |-> users, mail |-> mail, row |-> NoUser]
        ELSE [error |-> "none", users |-> users \cup {row}, mail |-> mail, row |-> row]

\* activate, were the activationToken left in place.
activate_KeepsToken(token) ==
    LET user == findOne({u \in users : u.activationToken = token})
    IN  IF user = NoUser
        THEN [error |-> "InvalidTokenException", users |-> users, user |-> NoUser]
        ELSE [error |-> "none",
              users |-> (users \ {user}) \cup {[user EXCEPT !.inactive = FALSE]},
              user |-> user]

\* activate
activate(token) ==
    LET user == findOne({u \in users : u.activationToken = token})
    IN  IF user = NoUser
        THEN [error |-> "InvalidTokenException", users |-> users, user |-> NoUser]
        ELSE [error |-> "none",
              users |-> (users \ {user}) \cup
                        {[user EXCEPT !.inactive = FALSE, !.activationToken = NULL]},
              user |-> user]

\* updateUser, were the row made inactive again.
updateUser_Deactivates(id, body) ==
    LET user == findOne({u \in users : u.id = id})
    IN  (users \ {user}) \cup
            {[user EXCEPT !.username = body.username, !.inactive = TRUE]}

\* updateUser: the row's username is set from the body and saved (the profile
\* image is left out of the model).
updateUser(id, body) ==
    LET user == findOne({u \in users : u.id = id})
    IN  (users \ {user}) \cup {[user EXCEPT !.username = body.username]}

\* deleteUser, were the rows of the tokens table left to themselves.
deleteUser_NoCascade(table, id) ==
    [users |-> {u \in users : u.id # id},
     tokens |-> table]

\* deleteUser: User.destroy({ where: { id } }); the tokens of the user go with
\* the row (hasMany Token, onDelete: 'cascade').
deleteUser(table, id) ==
    [users |-> {u \in users : u.id # id},
     tokens |-> {t \in table : t.userId # id}]

\* passwordResetRequest, were the mail sent before the user is looked up.
passwordResetRequest_MailFirst(email, fault) ==
    LET user == findByEmail(email)
        secret == randomString(SecretLength, rand + 1)
        mail == IF fault = "mail" THEN "rejected" ELSE "delivered"
    IN  IF user = NoUser
        THEN [error |-> "NotFoundException", users |-> users, mail |-> mail, user |-> NoUser]
        ELSE [error |-> IF mail = "delivered" THEN "none" ELSE "EmailException",
              users |-> (users \ {user}) \cup {[user EXCEPT !.passwordResetToken = secret]},
              mail |-> mail, user |-> user]

\* passwordResetRequest, were the secret taken back when the mail fails.
passwordResetRequest_RollsBack(email, fault) ==
    LET user == findByEmail(email)
        secret == randomString(SecretLength, rand + 1)
        mail == IF fault = "mail" THEN "rejected" ELSE "delivered"
    IN  IF user = NoUser
        THEN [error |-> "NotFoundException", users |-> users, mail |-> "none", user |-> NoUser]
        ELSE IF mail # "delivered"
        THEN [error |-> "EmailException", users |-> users, mail |-> mail, user |-> user]
        ELSE [error |-> "none",
              users |-> (users \ {user}) \cup {[user EXCEPT !.passwordResetToken = secret]},
              mail |-> mail, user |-> user]

\* passwordResetRequest, were a secret drawn only for a user that has none.
passwordResetRequest_KeepsSecret(email, fault) ==
    LET user == findByEmail(email)
        secret == IF user # NoUser /\ user.passwordResetToken # NULL
                  THEN user.passwordResetToken
                  ELSE randomString(SecretLength, Draw(1))
        mail == sendMail(email, secret, fault)
    IN  IF user = NoUser
        THEN [error |-> "NotFoundException", users |-> users, mail |-> "none", user |-> NoUser]
        ELSE [error |-> IF mail = "delivered" THEN "none" ELSE "EmailException",
              users |-> (users \ {user}) \cup {[user EXCEPT !.passwordResetToken = secret]},
              mail |-> mail, user |-> user]

\* passwordResetRequest: the secret is saved before the mail is sent.
passwordResetRequest(email, fault) ==
    LET user == findByEmail(email)
        secret == randomString(SecretLength, Draw(1))
        mail == sendMail(email, secret, fault)
    IN  IF user = NoUser
        THEN [error |-> "NotFoundException", users |-> users, mail |-> "none", user |-> NoUser]
        ELSE [error |-> IF mail = "delivered" THEN "none" ELSE "EmailException",
              users |-> (users \ {user}) \cup {[user EXCEPT !.passwordResetToken = secret]},
              mail |-> mail, user |-> user]

\* updatePassword, were the tokens of the user left in place.
updatePassword_KeepsTokens(passwordResetToken, password) ==
    LET user == findByPasswordResetToken(passwordResetToken)
        hash == bcryptHash(password, rand + 1)
    IN  IF user = NoUser
        THEN [error |-> "TypeError", users |-> users, tokens |-> tokens, user |-> NoUser]
        ELSE [error |-> "none",
              users |-> (users \ {user}) \cup
                        {[user EXCEPT !.password = hash,
                                      !.passwordResetToken = NULL,
                                      !.inactive = FALSE,
                                      !.activationToken = NULL]},
              tokens |-> tokens,
              user |-> user]

\* updatePassword, were the activationToken left in place.
updatePassword_KeepsActivationToken(passwordResetToken, password) ==
    LET user == findByPasswordResetToken(passwordResetToken)
        hash == bcryptHash(password, rand + 1)
    IN  IF user = NoUser
        THEN [error |-> "TypeError", users |-> users, tokens |-> tokens, user |-> NoUser]
        ELSE [error |-> "none",
              users |-> (users \ {user}) \cup
                        {[user EXCEPT !.password = hash,
                                      !.passwordResetToken = NULL,
                                      !.inactive = FALSE]},
              tokens |-> {t \in tokens : t.userId # user.id},
              user |-> user]

\* updatePassword, were the passwordResetToken left in place.
updatePassword_KeepsResetToken(passwordResetToken, password) ==
    LET user == findByPasswordResetToken(passwordResetToken)
        hash == bcryptHash(password, rand + 1)
    IN  IF user = NoUser
        THEN [error |-> "TypeError", users |-> users, tokens |-> tokens, user |-> NoUser]
        ELSE [error |-> "none",
              users |-> (users \ {user}) \cup
                        {[user EXCEPT !.password = hash,
                                      !.inactive = FALSE,
                                      !.activationToken = NULL]},
              tokens |-> {t \in tokens : t.userId # user.id},
              user |-> user]

\* updatePassword: with no user for the token, the assignment to user.password
\* throws before anything is written.
updatePassword(passwordResetToken, password) ==
    LET user == findByPasswordResetToken(passwordResetToken)
        hash == bcryptHash(password, Draw(1))
    IN  IF user = NoUser
        THEN [error |-> "TypeError", users |-> users, tokens |-> tokens, user |-> NoUser]
        ELSE [error |-> "none",
              users |-> (users \ {user}) \cup
                        {[user EXCEPT !.password = hash,
                                      !.passwordResetToken = NULL,
                                      !.inactive = FALSE,
                                      !.activationToken = NULL]},
              tokens |-> clearTokens(tokens, user.id),
              user |-> user]

----------------------------------------------------------------------------
(* UserRouter and AuthRouter: one action per request *)

\* A draw is counted once its string is stored or mailed; the draws of a
\* request that leaves nothing behind are not.
\* POST /api/1.0/users
PostUsers(body, fault) ==
    /\ rand + 2 <= MaxRand
    /\ IF ~checkUsername(body.username)
          \/ ~isEmail(body.email) \/ findByEmail(body.email) # NoUser
          \/ ~checkPassword(body.password)
       THEN /\ last' = Done("register", "ValidationException", NULL, 0, 0, "none", "none", 0)
            /\ UNCHANGED <<users, userSeq, rand>>
       ELSE LET r == save(body, fault)
            IN  /\ users' = r.users
                /\ userSeq' = IF r.error = "none" THEN r.row.id ELSE userSeq
                /\ rand' = IF r.mail = "delivered" THEN rand + 2 ELSE rand
                /\ last' = Done("register", r.error,
                                IF r.mail = "delivered"
                                THEN randomString(SecretLength, Draw(2)) ELSE NULL,
                                r.row.id, 0, "save", r.mail, 0)
    /\ UNCHANGED <<tokens, now, nextCleanup, pending, process>>

\* POST /api/1.0/users/token/:token
PostActivation(token) ==
    LET r == activate(token)
    IN  /\ users' = r.users
        /\ last' = Done("activate", r.error, token, r.user.id, 0, "activate", "none", 0)
        /\ UNCHANGED <<userSeq, tokens, now, nextCleanup, rand, pending, process>>

\* POST /api/1.0/auth, were the inactive flag not looked at.
PostAuth_SkipsInactive(email, password) ==
    LET user == findByEmail(email)
        error == IF ~isEmail(email) \/ user = NoUser THEN "AuthException"
                 ELSE IF ~bcryptCompare(password, user.password) THEN "AuthException"
                 ELSE "none"
        r == createToken(user)
    IN  /\ rand + 1 <= MaxRand
        /\ IF error = "none"
           THEN /\ tokens' = r.tokens
                /\ rand' = rand + 1
                /\ last' = Done("login", "none", r.token, user.id, 0, "createToken", "none", 0)
           ELSE /\ last' = Done("login", error, NULL, user.id, 0, "none", "none", 0)
                /\ UNCHANGED <<tokens, rand>>
        /\ UNCHANGED <<users, userSeq, now, nextCleanup, pending, process>>

\* POST /api/1.0/auth
PostAuth(email, password) ==
    LET user == findByEmail(email)
        error == IF ~isEmail(email) \/ user = NoUser THEN "AuthException"
                 ELSE IF ~bcryptCompare(password, user.password) THEN "AuthException"
                 ELSE IF user.inactive THEN "ForbiddenException"
                 ELSE "none"
        r == createToken(user)
    IN  /\ rand + 1 <= MaxRand
        /\ IF error = "none"
           THEN /\ tokens' = r.tokens
                /\ rand' = rand + 1
                /\ last' = Done("login", "none", r.token, user.id, 0, "createToken", "none", 0)
           ELSE /\ last' = Done("login", error, NULL, user.id, 0, "none", "none", 0)
                /\ UNCHANGED <<tokens, rand>>
        /\ UNCHANGED <<users, userSeq, now, nextCleanup, pending, process>>

\* POST /api/1.0/logout
PostLogout(authorization) ==
    LET a == tokenAuthentication(authorization)
    IN  /\ tokens' = IF authorization # NoAuthorization
                     THEN deleteToken(a.tokens, substring7(authorization))
                     ELSE a.tokens
        /\ last' = Done("logout", "none", Presented(authorization), a.id, a.id,
                        IF authorization # NoAuthorization THEN "deleteToken" ELSE "none",
                        "none", Cardinality(tokens) - Cardinality(tokens'))
        /\ UNCHANGED <<users, userSeq, now, nextCleanup, rand, pending, process>>

\* GET /api/1.0/users/:id with an Authorization header: an endpoint that asks
\* for no authentication, behind the tokenAuthentication middleware.
GetUser(authorization, id) ==
    LET a == tokenAuthentication(authorization)
        user == findOne({u \in users : u.id = id /\ ~u.inactive})
        error == IF user = NoUser THEN "NotFoundException" ELSE "none"
    IN  /\ tokens' = a.tokens
        /\ last' = Done("getUser", error, Presented(authorization), id, a.id, "getUser", "none", 0)
        /\ UNCHANGED <<users, userSeq, now, nextCleanup, rand, pending, process>>

\* PUT /api/1.0/users/:id
PutUser(authorization, id, body) ==
    LET a == tokenAuthentication(authorization)
        error == IF a.id = 0 \/ a.id # id THEN "ForbiddenException"
                 ELSE IF ~checkUsername(body.username) THEN "ValidationException"
                 ELSE "none"
    IN  /\ tokens' = a.tokens
        /\ users' = IF error = "none" THEN updateUser(id, body) ELSE users
        /\ last' = Done("updateUser", error, Presented(authorization), id, a.id,
                        IF error = "none" THEN "updateUser" ELSE "none", "none", 0)
        /\ UNCHANGED <<userSeq, now, nextCleanup, rand, pending, process>>

\* DELETE /api/1.0/users/:id, were any authenticated user let through.
DeleteUser_AnyUser(authorization, id) ==
    LET a == tokenAuthentication(authorization)
        error == IF a.id = 0 THEN "ForbiddenException" ELSE "none"
        r == deleteUser(a.tokens, id)
    IN  /\ tokens' = IF error = "none" THEN r.tokens ELSE a.tokens
        /\ users' = IF error = "none" THEN r.users ELSE users
        /\ last' = Done("deleteUser", error, Presented(authorization), id, a.id,
                        IF error = "none" THEN "deleteUser" ELSE "none", "none",
                        Cardinality(tokens) - Cardinality(tokens'))
        /\ UNCHANGED <<userSeq, now, nextCleanup, rand, pending, process>>

\* DELETE /api/1.0/users/:id
DeleteUser(authorization, id) ==
    LET a == tokenAuthentication(authorization)
        error == IF a.id = 0 \/ a.id # id THEN "ForbiddenException" ELSE "none"
        r == deleteUser(a.tokens, id)
    IN  /\ tokens' = IF error = "none" THEN r.tokens ELSE a.tokens
        /\ users' = IF error = "none" THEN r.users ELSE users
        /\ last' = Done("deleteUser", error, Presented(authorization), id, a.id,
                        IF error = "none" THEN "deleteUser" ELSE "none", "none",
                        Cardinality(tokens) - Cardinality(tokens'))
        /\ UNCHANGED <<userSeq, now, nextCleanup, rand, pending, process>>

\* POST /api/1.0/user/password
PostPassword(email, fault) ==
    /\ rand + 1 <= MaxRand
    /\ IF ~isEmail(email)
       THEN /\ last' = Done("passwordResetRequest", "ValidationException", NULL, 0, 0,
                            "none", "none", 0)
            /\ UNCHANGED <<users, rand>>
       ELSE LET r == passwordResetRequest(email, fault)
            IN  /\ users' = r.users
                /\ rand' = IF r.user = NoUser THEN rand ELSE rand + 1
                /\ last' = Done("passwordResetRequest", r.error,
                                IF r.user = NoUser THEN NULL
                                ELSE randomString(SecretLength, Draw(1)),
                                r.user.id, 0, "passwordResetRequest", r.mail, 0)
    /\ UNCHANGED <<userSeq, tokens, now, nextCleanup, pending, process>>

\* The route PUT /api/1.0/user/password: its layers, in order.
PasswordRoute == <<"passwordResetTokenValidator", "checkPassword", "handler">>

\* passwordResetTokenValidator, were the second next() to run the next layer.
passwordResetTokenValidator_FallsThrough(passwordResetToken) ==
    LET user == findByPasswordResetToken(passwordResetToken)
    IN  [error |-> IF user = NoUser THEN "ForbiddenException" ELSE "none",
         layer |-> PasswordRoute[2]]

\* passwordResetTokenValidator, as Route.dispatch runs it.  For an unknown token
\* it calls next(error), and then next() once more.  next(error) passes the
\* error along the route's remaining layers (none takes an error), leaves the
\* route and ends in the ErrorHandler; it moves the route's index past the
\* stack, so the second next() finds no layer left to run.
passwordResetTokenValidator(passwordResetToken) ==
    LET user == findByPasswordResetToken(passwordResetToken)
        idx == IF user = NoUser THEN Len(PasswordRoute) + 1 ELSE 1
    IN  [error |-> IF user = NoUser THEN "ForbiddenException" ELSE "none",
         layer |-> IF idx + 1 <= Len(PasswordRoute) THEN PasswordRoute[idx + 1]
                   ELSE "none"]

\* PUT /api/1.0/user/password.  The response is the first one sent: the
\* validator's error, else the validation error, else the handler's outcome.
PutPassword(passwordResetToken, password) ==
    LET v == passwordResetTokenValidator(passwordResetToken)
        r == updatePassword(passwordResetToken, password)
        First(error) == IF v.error = "none" THEN error ELSE v.error
    IN  /\ rand + 1 <= MaxRand
        /\ IF v.layer = "none"
           THEN /\ last' = Done("passwordUpdate", v.error, passwordResetToken, 0, 0,
                                "none", "none", 0)
                /\ UNCHANGED <<users, tokens, rand>>
           ELSE IF ~checkPassword(password)
           THEN /\ last' = Done("passwordUpdate", First("ValidationException"),
                                passwordResetToken, 0, 0, "none", "none", 0)
                /\ UNCHANGED <<users, tokens, rand>>
           ELSE /\ users' = r.users
                /\ tokens' = r.tokens
                /\ rand' = IF r.error = "none" THEN rand + 1 ELSE rand
                /\ last' = Done("passwordUpdate", First(r.error),
                                passwordResetToken, r.user.id, 0, "updatePassword", "none",
                                Cardinality(tokens) - Cardinality(tokens'))
        /\ UNCHANGED <<userSeq, now, nextCleanup, pending, process>>

----------------------------------------------------------------------------
(* TokenService.verify, one step per store round trip *)

\* The slots for calls of verify in flight.
Procs == 1..MaxInFlight

NoCall == [pc |-> "idle", token |-> NULL, tokenInDb |-> NoToken]

\* tokenInDb.save(), were lastUsedAt set to new Date(0).
tokenSave_Epoch(table, tokenInDb, date) ==
    {IF t.token = tokenInDb.token
     THEN [t EXCEPT !.lastUsedAt = 0] ELSE t : t \in table}

\* tokenInDb.save(), were it to write the row read whether or not the table
\* still holds it.
tokenSave_Upsert(table, tokenInDb, date) ==
    {t \in table : t.token # tokenInDb.token}
        \cup {[tokenInDb EXCEPT !.lastUsedAt = date]}

\* tokenInDb.save() with lastUsedAt = date: an UPDATE of the row read; a row
\* deleted in the meantime is not brought back.
tokenSave(table, tokenInDb, date) ==
    {IF t.token = tokenInDb.token
     THEN [t EXCEPT !.lastUsedAt = date] ELSE t : t \in table}

\* verify, up to the first await: Token.findOne runs.  With no row the call
\* throws at once; with a row the call waits to go on.  A call takes the first
\* free slot.
verifyFindOne(p, token) ==
    LET tokenInDb == verifyFind(token)
    IN  /\ pending[p] = NoCall
        /\ \A q \in Procs : q < p => pending[q] # NoCall
        /\ IF tokenInDb = NoToken
           THEN /\ last' = Done("verify", "TypeError", token, 0, 0, "findOne", "none", 0)
                /\ UNCHANGED pending
           ELSE /\ last' = Done("verify", "none", token, tokenInDb.userId, 0,
                                "findOne", "none", 0)
                /\ pending' = [pending EXCEPT ![p] =
                       [pc |-> "save", token |-> token, tokenInDb |-> tokenInDb]]
        /\ UNCHANGED <<users, userSeq, tokens, now, nextCleanup, rand, process>>

\* verify, after the first await: lastUsedAt = new Date(), save, return the
\* userId of the row read.
verifySave(p) ==
    LET tokenInDb == pending[p].tokenInDb
    IN  /\ pending[p].pc = "save"
        /\ tokens' = tokenSave(tokens, tokenInDb, now)
        /\ last' = Done("verify", "none", pending[p].token, tokenInDb.userId,
                        tokenInDb.userId, "save", "none", 0)
        /\ pending' = [pending EXCEPT ![p] = NoCall]
        /\ UNCHANGED <<users, userSeq, now, nextCleanup, rand, process>>

\* A call of deleteToken, as logout makes it.
Revoke(token) ==
    /\ tokens' = deleteToken(tokens, token)
    /\ last' = Done("revoke", "none", token, 0, 0, "deleteToken", "none",
                    Cardinality(tokens) - Cardinality(tokens'))
    /\ UNCHANGED <<users, userSeq, now, nextCleanup, rand, pending, process>>

----------------------------------------------------------------------------
(* Clock and timer *)

Tick(d) ==
    /\ now + d <= MaxDays * Day
    /\ now' = now + d
    /\ last' = Done("tick", "none", NULL, 0, 0, "none", "none", 0)
    /\ UNCHANGED <<users, userSeq, tokens, nextCleanup, rand, pending, process>>

\* The Node process as index starts it: no interval timer yet, no unhandled
\* rejection, running.
Started == [timers |-> 0, unhandled |-> 0, exited |-> FALSE]

\* scheduleCleanup, were it to set no timer.
scheduleCleanup_NoTimer(proc) == proc

\* scheduleCleanup, were it to set two timers.
scheduleCleanup_Twice(proc) == [proc EXCEPT !.timers = @ + 2]

\* scheduleCleanup: every call is a setInterval, whose handle is not kept.
scheduleCleanup(proc) == [proc EXCEPT !.timers = @ + 1]

\* The setInterval callback of scheduleCleanup, run when the timer is due.
Cleanup ==
    /\ process.timers > 0
    /\ now >= nextCleanup
    /\ tokens' = cleanup
    /\ nextCleanup' = now + CleanupInterval
    /\ last' = Done("cleanup", "none", NULL, 0, 0, "cleanup", "none",
                    Cardinality(tokens) - Cardinality(tokens'))
    /\ UNCHANGED <<users, userSeq, now, rand, pending, process>>

\* The process serves requests and runs callbacks until it ends.
Running == ~process.exited

\* What Node does with a rejected promise nobody handles: up to version 14 it
\* prints a warning and goes on, from version 15 it ends the process.
UnhandledRejections == {"warn", "exit"}

\* The setInterval callback when Token.destroy rejects.  The callback is an
\* async function with no try/catch and setInterval drops the promise it
\* returns, so the rejection is handled by nobody; the timer stays armed
\* unless the process ends.
CleanupRejected(outcome) ==
    /\ now >= nextCleanup
    /\ process.timers > 0
    /\ process.unhandled < MaxRejections
    /\ nextCleanup' = now + CleanupInterval
    /\ process' = [timers |-> IF outcome = "exit" THEN 0 ELSE process.timers,
                   unhandled |-> process.unhandled + 1,
                   exited |-> outcome = "exit"]
    /\ last' = Done("cleanup", "Error", NULL, 0, 0, "cleanup", "none", 0)
    /\ UNCHANGED <<users, userSeq, tokens, now, rand, pending>>

\* The clock reaches the instant at which the timer fires next, while a row
\* is in the table that the run at that instant is to delete.  The clock
\* is followed past MaxDays by one interval per rejected run.
TickToTimer ==
    /\ now < nextCleanup
    /\ nextCleanup <= MaxDays * Day + MaxRejections * CleanupInterval
    /\ process.timers > 0
    /\ \E t \in tokens : t.lastUsedAt < nextCleanup - OneWeek
    /\ now' = nextCleanup
    /\ last' = Done("tick", "none", NULL, 0, 0, "none", "none", 0)
    /\ UNCHANGED <<users, userSeq, tokens, nextCleanup, rand, pending, process>>

----------------------------------------------------------------------------

Init ==
    /\ users = {}
    /\ userSeq = 0
    /\ tokens = {}
    /\ now = 0
    /\ nextCleanup = CleanupInterval
    /\ rand = 0
    /\ last = Idle
    /\ pending = [p \in Procs |-> NoCall]
    /\ process = scheduleCleanup(Started)

Emails == ValidEmails \cup {InvalidEmail}
Passwords == ValidPasswords \cup {InvalidPassword}
\* The bodies of a registration: the valid ones, and one per validation error,
\* each with inactive: false as the validUser of the tests has it.
Bodies ==
    {[username |-> ValidUsername, email |-> e, password |-> p, inactive |-> FALSE] :
        e \in Emails, p \in Passwords}
\* The usernames of an update: a valid one and one too short.
Usernames == {UpdatedUsername, InvalidUsername}
\* The ids a request may name: those of the rows ever inserted (a deleted
\* row's id is the id of no user).
Ids == 1..userSeq
\* The string of the previous request, for a client that repeats it.
Repeated(ops) == IF last.op \in ops /\ last.arg # NULL THEN {last.arg} ELSE {}
\* The tokens a request may present: the stored ones, the one just used, and
\* one that was never issued.
Authorizations ==
    {Bearer(t) : t \in {r.token : r \in tokens}
                        \cup Repeated({"logout", "getUser", "updateUser", "deleteUser"})
                        \cup {Bogus}}
\* The activation secrets a request may present (a path parameter, never
\* null): the stored ones, the one just used, and one that was never issued.
ActivationTokens ==
    ({u.activationToken : u \in users} \ {NULL})
        \cup Repeated({"activate"}) \cup {Bogus}
\* The reset secrets a request may present (a body field): the stored ones,
\* the one just used, one that was never issued, and null.
PasswordResetTokens ==
    {u.passwordResetToken : u \in users}
        \cup Repeated({"passwordUpdate"}) \cup {Bogus, NULL}

\* The requests of the registration, session and password-reset routes, of
\* GET and DELETE /api/1.0/users/:id, the clock and the timer.
Next ==
    \/ \E body \in Bodies, fault \in {"none", "insert", "mail", "commit"} :
          PostUsers(body, fault)
    \/ \E token \in ActivationTokens : PostActivation(token)
    \/ \E email \in Emails, password \in Passwords : PostAuth(email, password)
    \/ \E authorization \in Authorizations \cup {NoAuthorization} :
          PostLogout(authorization)
    \/ \E authorization \in Authorizations, id \in Ids : GetUser(authorization, id)
    \/ \E authorization \in Authorizations \cup {NoAuthorization}, id \in Ids :
          DeleteUser(authorization, id)
    \/ \E email \in Emails, fault \in {"none", "mail"} : PostPassword(email, fault)
    \/ \E token \in PasswordResetTokens, password \in Passwords :
          PutPassword(token, password)
    \/ \E d \in TickSteps : Tick(d)
    \/ Cleanup

Spec == Init /\ [][Next]_vars

\* The same requests, and PUT /api/1.0/users/:id among them.
NextUsers ==
    \/ Next
    \/ \E authorization \in Authorizations \cup {NoAuthorization}, id \in Ids,
          username \in Usernames :
          PutUser(authorization, id, [username |-> username])

SpecUsers == Init /\ [][NextUsers]_vars

\* The token service under interleaving.  It starts where one user has
\* registered and activated the account; the user logs in; calls of verify
\* advance one store round trip at a time, among each other and among logins,
\* revocations, the cleanup and the clock.
InitRace ==
    LET body == [email |-> "user1@mail.com", password |-> "P4ssword"]
        secret == randomString(SecretLength, 2)
    IN  /\ users = {[id |-> 1,
                     username |-> ValidUsername,
                     email |-> body.email,
                     password |-> bcryptHash(body.password, 1),
                     activationToken |-> NULL,
                     passwordResetToken |-> NULL,
                     inactive |-> FALSE]}
        /\ userSeq = 1
        /\ tokens = {}
        /\ now = 0
        /\ nextCleanup = CleanupInterval
        /\ rand = 2
        /\ last = Done("activate", "none", secret, 1, 0, "activate", "none", 0)
        /\ pending = [p \in Procs |-> NoCall]
        /\ process = scheduleCleanup(Started)

NextRace ==
    \/ /\ Cardinality(tokens) < MaxSessions
       /\ \E email \in ValidEmails, password \in ValidPasswords :
              PostAuth(email, password)
    \/ \E p \in Procs, t \in tokens : verifyFindOne(p, t.token)
    \/ \E p \in Procs : verifySave(p)
    \/ \E t \in tokens : Revoke(t.token)
    \/ \E d \in TickSteps : Tick(d)
    \/ Cleanup

SpecRace == InitRace /\ [][NextRace]_vars

\* A call of clearTokens, as updatePassword makes it for the user whose
\* password is reset.
RevokeAll(userId) ==
    /\ tokens' = clearTokens(tokens, userId)
    /\ last' = Done("revokeAll", "none", NULL, userId, 0, "clearTokens", "none",
                    Cardinality(tokens) - Cardinality(tokens'))
    /\ UNCHANGED <<users, userSeq, now, nextCleanup, rand, pending, process>>

\* The calls of SpecRace and clearTokens.
NextRaceAll ==
    \/ NextRace
    \/ \E t \in tokens : RevokeAll(t.userId)

SpecRaceAll == InitRace /\ [][NextRaceAll]_vars

----------------------------------------------------------------------------
(* Login and password update, one step per await *)

\* A request in flight: where it goes on, the secret and the password of its
\* body, and the user row it read.
Call(pc, token, user, password) ==
    [pc |-> pc, token |-> token, tokenInDb |-> NoToken, user |-> user,
     password |-> password]

\* A request takes the first free slot.
Free(p) ==
    /\ pending[p] = NoCall
    /\ \A q \in Procs : q < p => pending[q] # NoCall

\* POST /api/1.0/auth up to its first await: checkEmail, then findByEmail.
loginFindByEmail(p, email, password) ==
    LET user == findByEmail(email)
    IN  /\ Free(p)
        /\ IF ~isEmail(email) \/ user = NoUser
           THEN /\ last' = Done("login", "AuthException", NULL, 0, 0, "findByEmail",
                                "none", 0)
                /\ UNCHANGED pending
           ELSE /\ last' = Done("login", "none", NULL, user.id, 0, "findByEmail",
                                "none", 0)
                /\ pending' = [pending EXCEPT ![p] = Call("compare", NULL, user, password)]
        /\ UNCHANGED <<users, userSeq, tokens, now, nextCleanup, rand, process>>

\* POST /api/1.0/auth after findByEmail: bcrypt.compare with the password of
\* the row read, then the inactive flag of the row read.
loginCompare(p) ==
    LET user == pending[p].user
        error == IF ~bcryptCompare(pending[p].password, user.password)
                 THEN "AuthException"
                 ELSE IF user.inactive THEN "ForbiddenException" ELSE "none"
    IN  /\ pending[p].pc = "compare"
        /\ last' = Done("login", error, NULL, user.id, 0, "compare", "none", 0)
        /\ pending' = [pending EXCEPT ![p] =
               IF error = "none" THEN [pending[p] EXCEPT !.pc = "createToken"] ELSE NoCall]
        /\ UNCHANGED <<users, userSeq, tokens, now, nextCleanup, rand, process>>

\* POST /api/1.0/auth after bcrypt.compare: createToken for the row read.
loginCreateToken(p) ==
    LET r == createToken(pending[p].user)
    IN  /\ pending[p].pc = "createToken"
        /\ rand + 1 <= MaxRand
        /\ tokens' = r.tokens
        /\ rand' = IF r.error = "none" THEN rand + 1 ELSE rand
        /\ last' = Done("login", r.error, r.token, pending[p].user.id, 0,
                        "createToken", "none", 0)
        /\ pending' = [pending EXCEPT ![p] = NoCall]
        /\ UNCHANGED <<users, userSeq, now, nextCleanup, process>>

\* PUT /api/1.0/user/password up to the handler: passwordResetTokenValidator
\* with its findByPasswordResetToken, then checkPassword.
passwordValidate(p, passwordResetToken, password) ==
    LET v == passwordResetTokenValidator(passwordResetToken)
        error == IF v.layer = "none" THEN v.error
                 ELSE IF ~checkPassword(password) THEN "ValidationException"
                 ELSE "none"
    IN  /\ Free(p)
        /\ last' = Done("passwordUpdate", error, passwordResetToken, 0, 0,
                        "findByPasswordResetToken", "none", 0)
        /\ pending' = [pending EXCEPT ![p] =
               IF error = "none"
               THEN Call("findByPasswordResetToken", passwordResetToken, NoUser, password)
               ELSE NoCall]
        /\ UNCHANGED <<users, userSeq, tokens, now, nextCleanup, rand, process>>

\* updatePassword up to user.save(): findByPasswordResetToken, bcrypt.hash,
\* the assignments to the row read (a TypeError when there is none).
updatePasswordFind(p) ==
    LET user == findByPasswordResetToken(pending[p].token)
    IN  /\ pending[p].pc = "findByPasswordResetToken"
        /\ last' = Done("passwordUpdate", IF user = NoUser THEN "TypeError" ELSE "none",
                        pending[p].token, user.id, 0, "updatePassword", "none", 0)
        /\ pending' = [pending EXCEPT ![p] =
               IF user = NoUser THEN NoCall
               ELSE [pending[p] EXCEPT !.pc = "save", !.user = user]]
        /\ UNCHANGED <<users, userSeq, tokens, now, nextCleanup, rand, process>>

\* updatePassword: user.save(), an UPDATE of the row read with the fields
\* assigned.
updatePasswordSave(p) ==
    LET user == pending[p].user
        hash == bcryptHash(pending[p].password, Draw(1))
    IN  /\ pending[p].pc = "save"
        /\ rand + 1 <= MaxRand
        /\ users' = {IF u.id = user.id
                     THEN [u EXCEPT !.password = hash,
                                    !.passwordResetToken = NULL,
                                    !.inactive = FALSE,
                                    !.activationToken = NULL]
                     ELSE u : u \in users}
        /\ rand' = rand + 1
        /\ last' = Done("passwordUpdate", "none", pending[p].token, user.id, 0,
                        "save", "none", 0)
        /\ pending' = [pending EXCEPT ![p] = [pending[p] EXCEPT !.pc = "clearTokens"]]
        /\ UNCHANGED <<userSeq, tokens, now, nextCleanup, process>>

\* updatePassword after user.save(): clearTokens(user.id); the response is
\* sent.
updatePasswordClearTokens(p) ==
    /\ pending[p].pc = "clearTokens"
    /\ tokens' = clearTokens(tokens, pending[p].user.id)
    /\ last' = Done("passwordUpdate", "none", pending[p].token, pending[p].user.id, 0,
                    "clearTokens", "none", Cardinality(tokens) - Cardinality(tokens'))
    /\ pending' = [pending EXCEPT ![p] = NoCall]
    /\ UNCHANGED <<users, userSeq, now, nextCleanup, rand, process>>

\* The passwords of a login or a password update: the one of the
\* registration, and another.
LoginPasswords == ValidPasswords \cup {NewPassword}

\* Logins of the one user and password resets for that user, each advancing
\* one await at a time.
NextLoginReset ==
    \/ \E p \in Procs, email \in {u.email : u \in users}, password \in LoginPasswords :
          loginFindByEmail(p, email, password)
    \/ \E p \in Procs : loginCompare(p)
    \/ \E p \in Procs : loginCreateToken(p)
    \/ \E u \in users : PostPassword(u.email, "none")
    \/ \E p \in Procs, u \in users, password \in LoginPasswords :
          /\ u.passwordResetToken # NULL
          /\ passwordValidate(p, u.passwordResetToken, password)
    \/ \E p \in Procs : updatePasswordFind(p)
    \/ \E p \in Procs : updatePasswordSave(p)
    \/ \E p \in Procs : updatePasswordClearTokens(p)

SpecLoginReset == InitRace /\ [][NextLoginReset]_vars

----------------------------------------------------------------------------
(* Registration, one step per await *)

\* A registration in flight, between its validation and save.
RegisterCall(body) ==
    [pc |-> "register", token |-> NULL, tokenInDb |-> NoToken, body |-> body]

\* POST /api/1.0/users up to the handler: checkUsername, checkEmail with its
\* findByEmail, checkPassword.
registerValidate(p, body) ==
    LET errors == \/ ~checkUsername(body.username)
                  \/ ~isEmail(body.email) \/ findByEmail(body.email) # NoUser
                  \/ ~checkPassword(body.password)
    IN  /\ Free(p)
        /\ last' = Done("register", IF errors THEN "ValidationException" ELSE "none",
                        NULL, 0, 0, "findByEmail", "none", 0)
        /\ pending' = [pending EXCEPT ![p] = IF errors THEN NoCall ELSE RegisterCall(body)]
        /\ UNCHANGED <<users, userSeq, tokens, now, nextCleanup, rand, process>>

\* POST /api/1.0/users, the handler: UserService.save in its transaction.  The
\* step records the id of the row that holds the email when none is inserted.
registerSave(p, fault) ==
    LET body == pending[p].body
        r == save(body, fault)
    IN  /\ pending[p].pc = "register"
        /\ rand + 2 <= MaxRand
        /\ users' = r.users
        /\ userSeq' = IF r.error = "none" THEN r.row.id ELSE userSeq
        /\ rand' = IF r.mail = "delivered" THEN rand + 2 ELSE rand
        /\ last' = Done("register", r.error,
                        IF r.mail = "delivered"
                        THEN randomString(SecretLength, Draw(2)) ELSE NULL,
                        IF r.error = "none" THEN r.row.id ELSE findByEmail(body.email).id,
                        0, "save", r.mail, 0)
        /\ pending' = [pending EXCEPT ![p] = NoCall]
        /\ UNCHANGED <<tokens, now, nextCleanup, process>>

\* Registrations that run side by side, each validated and then saved.
NextRegister ==
    \/ \E p \in Procs, body \in Bodies : registerValidate(p, body)
    \/ \E p \in Procs, fault \in {"none", "insert", "mail", "commit"} :
          registerSave(p, fault)

SpecRegister == Init /\ [][NextRegister]_vars

----------------------------------------------------------------------------
(* Password reset with secrets of earlier requests *)

\* The reset secrets a client may hold: every string of that length drawn so
\* far, whether or not a user still has it.
DrawnSecrets == {randomString(SecretLength, k) : k \in 1..rand}

\* Requests for a reset secret, password updates with any secret drawn so
\* far or one never drawn, logins and logouts.
NextReset ==
    \/ \E email \in Emails, fault \in {"none", "mail"} : PostPassword(email, fault)
    \/ \E token \in DrawnSecrets \cup {Bogus}, password \in LoginPasswords :
          PutPassword(token, password)
    \/ \E email \in Emails, password \in LoginPasswords : PostAuth(email, password)
    \/ \E t \in tokens : PostLogout(Bearer(t.token))

SpecReset == InitRace /\ [][NextReset]_vars

----------------------------------------------------------------------------
(* Sessions of two users *)

\* Two users have registered and activated their accounts (the salts of their
\* hashes were drawn then); the first has logged in twice, the second once.
InitSessions ==
    /\ users = {[id |-> i,
                 username |-> ValidUsername,
                 email |-> IF i = 1 THEN "user1@mail.com" ELSE "user2@mail.com",
                 password |-> bcryptHash("P4ssword", 0),
                 activationToken |-> NULL,
                 passwordResetToken |-> NULL,
                 inactive |-> FALSE] : i \in 1..2}
    /\ userSeq = 2
    /\ tokens = {TokenRow(randomString(TokenLength, 1), 1, 0),
                 TokenRow(randomString(TokenLength, 2), 1, 0),
                 TokenRow(randomString(TokenLength, 3), 2, 0)}
    /\ now = 0
    /\ nextCleanup = CleanupInterval
    /\ rand = 3
    /\ last = Done("login", "none", randomString(TokenLength, 3), 2, 0, "createToken",
                   "none", 0)
    /\ pending = [p \in Procs |-> NoCall]
    /\ process = scheduleCleanup(Started)

\* Logouts, password reset requests and password updates of the two users,
\* and the clock.
NextSessions ==
    \/ \E authorization \in Authorizations \cup {NoAuthorization} :
          PostLogout(authorization)
    \/ \E email \in ValidEmails : PostPassword(email, "none")
    \/ \E token \in PasswordResetTokens, password \in ValidPasswords :
          PutPassword(token, password)
    \/ \E d \in TickSteps : Tick(d)

SpecSessions == InitSessions /\ [][NextSessions]_vars

----------------------------------------------------------------------------
(* Login, one step per await, and the deletion of the user *)

\* Logins of the one user that advance one await at a time, requests to
\* delete the user made with a token of a login, and logouts.
NextLoginDelete ==
    \/ \E p \in Procs, email \in ValidEmails, password \in Passwords :
          loginFindByEmail(p, email, password)
    \/ \E p \in Procs : loginCompare(p)
    \/ \E p \in Procs : loginCreateToken(p)
    \/ \E authorization \in Authorizations, id \in Ids : DeleteUser(authorization, id)
    \/ \E t \in tokens : PostLogout(Bearer(t.token))

SpecLoginDelete == InitRace /\ [][NextLoginDelete]_vars

\* The cleanup over a store that may reject it.  One user has registered and
\* activated the account; while the process runs the user logs in, presents
\* a token and logs out, the clock advances, and each run of the timer's
\* callback is accepted or rejected by the store.
NextSweep ==
    \/ /\ Running
       /\ Cardinality(tokens) < MaxSessions + 1
       /\ \E email \in ValidEmails, password \in ValidPasswords :
              PostAuth(email, password)
    \/ Running /\ \E t \in tokens : GetUser(Bearer(t.token), t.userId)
    \/ Running /\ \E t \in tokens : PostLogout(Bearer(t.token))
    \/ Running /\ \E d \in TickSteps : Tick(d)
    \/ Running /\ Cleanup
    \/ Running /\ \E outcome \in UnhandledRejections : CleanupRejected(outcome)
    \/ Running /\ TickToTimer

SpecSweep == InitRace /\ [][NextSweep]_vars

\* The same, where the timer keeps firing (setInterval runs the callback at
\* every interval while the process runs) and the store, after the rejections
\* the model follows, accepts a run.
SpecSweepFair ==
    /\ InitRace
    /\ [][NextSweep]_vars
    /\ WF_vars(Running /\ TickToTimer)
    /\ WF_vars(Running /\ Cleanup)

----------------------------------------------------------------------------
(* Properties of the token service *)

\* C1: a token verified right after createToken issued it for user u is
\* accepted, and verify returns u's id.
C1_VerifyAfterIssue ==
    (last.op = "login" /\ last.error = "none") =>
        /\ verify(last.arg).error = "none"
        /\ verify(last.arg).id = last.user

\* A login that succeeded more than a week after the start.
C1_Witness ==
    /\ last.op = "login"
    /\ last.error = "none"
    /\ now > OneWeek
    /\ \E t \in tokens : t.token = last.arg /\ t.userId = last.user

\* The tokens a client may hold: the stored ones, and one never issued.
Presentable == {t.token : t \in tokens} \cup {Bogus}

\* C2, as amended: verify fails iff no row holds the token or the row's age,
\* now - lastUsedAt, is at least the TTL; for every row younger than the TTL
\* verify succeeds and returns the row's owner.  An age of exactly 7 days is
\* rejected.
C2_VerifyExpiry ==
    \A token \in Presentable :
        LET rows == {t \in tokens : t.token = token}
        IN  /\ (verify(token).error # "none") <=>
                   (rows = {} \/ \A t \in rows : now - t.lastUsedAt >= OneWeek)
            /\ \A t \in rows :
                   now - t.lastUsedAt < OneWeek =>
                       verify(token).error = "none" /\ verify(token).id = t.userId

\* C2, as stated: verify fails iff no row holds the token or its age exceeds
\* the TTL; for every row of age at most the TTL, exactly 7 days included,
\* verify succeeds and returns the row's owner.
C2_AsStated ==
    \A token \in Presentable :
        LET rows == {t \in tokens : t.token = token}
        IN  /\ (verify(token).error # "none") <=>
                   (rows = {} \/ \A t \in rows : now - t.lastUsedAt > OneWeek)
            /\ \A t \in rows :
                   now - t.lastUsedAt <= OneWeek =>
                       verify(token).error = "none" /\ verify(token).id = t.userId

\* A request that presented a token last used exactly 7 days before, and was
\* left anonymous.
C2_Witness ==
    /\ last.op = "getUser"
    /\ last.auth = 0
    /\ \E t \in tokens : t.token = last.arg /\ now - t.lastUsedAt = OneWeek

\* C3: a request whose token verify accepted leaves the token's row with
\* lastUsedAt at or after the time the verification started, on an endpoint
\* that asks for no authentication (GET user) as on one that does (DELETE
\* user, here refused for another user's id).
C3_VerifyRefreshes ==
    (last.op \in {"getUser", "deleteUser"} /\ last.auth # 0
        /\ ~(last.op = "deleteUser" /\ last.error = "none")) =>
        \E t \in tokens :
            /\ t.token = last.arg
            /\ t.userId = last.auth
            /\ t.lastUsedAt >= now

\* A token issued at the start, accepted by GET user days later.
C3_Witness ==
    /\ last.op = "getUser"
    /\ last.auth # 0
    /\ now > 0
    /\ \A t \in tokens : t.lastUsedAt \in {0, now}

\* C4: once clearTokens(u) has run (on a password update), verify fails for
\* every token that belonged to u before.
C4_ClearTokensRevokes ==
    [][(last'.op = "passwordUpdate" /\ last'.svc = "updatePassword"
            /\ last'.error = "none") =>
        \A t \in tokens :
            t.userId = last'.user =>
                /\ (verify(t.token).error)' # "none"
                /\ \A r \in tokens' : r.userId # t.userId]_vars

\* A password update that destroyed tokens which verify accepted until then.
C4_Witness ==
    /\ last.op = "passwordUpdate"
    /\ last.error = "none"
    /\ last.destroyed > 0
    /\ \A t \in tokens : t.userId # last.user

----------------------------------------------------------------------------
(* Properties of registration and activation *)

\* C5: a registration whose activation mail is delivered (the store accepting
\* the insert and the commit) persists exactly one new user row, inactive and
\* with a non-empty activation secret; one whose mail is rejected persists no
\* row and fails with EmailException, status 502.
C5_Register ==
    [][\A body \in Bodies, fault \in {"none", "mail"} :
        (PostUsers(body, fault) /\ last'.svc = "save") =>
            IF fault = "none"
            THEN /\ last'.error = "none"
                 /\ users \subseteq users'
                 /\ Cardinality(users' \ users) = 1
                 /\ \A row \in users' \ users :
                        /\ row.email = body.email
                        /\ row.inactive = TRUE
                        /\ row.activationToken # NULL
                        /\ row.activationToken.len > 0
            ELSE /\ users' = users
                 /\ last'.error = "EmailException"
                 /\ StatusOf(last'.error) = 502]_vars

\* A registration refused for its mail, after one that went through.
C5_Witness ==
    /\ last.op = "register"
    /\ last.mail = "rejected"
    /\ last.error = "EmailException"
    /\ \E u \in users : u.inactive /\ u.activationToken.len = SecretLength

\* C6: whenever a registration fails (on the insert, the mail or the commit)
\* the users table is as it was before.
C6_RegisterFailureNoRow ==
    [][(last'.op = "register" /\ last'.error # "none") => users' = users]_vars

\* A registration that failed on the commit, its mail delivered.
C6_Witness ==
    /\ last.op = "register"
    /\ last.svc = "save"
    /\ last.error = "Error"
    /\ last.mail = "delivered"

\* C7: activate with a secret matching no user fails with
\* InvalidTokenException and leaves the users as they were; with the secret of
\* user u it sets u.inactive = false and u.activationToken = null, and a second
\* activate with that secret fails with InvalidTokenException.
C7_Activate ==
    [][\A s \in ActivationTokens :
        (last'.op = "activate" /\ last'.arg = s) =>
        LET matches == {u \in users : u.activationToken = s}
        IN  IF matches = {}
            THEN /\ last'.error = "InvalidTokenException"
                 /\ StatusOf(last'.error) = 400
                 /\ users' = users
            ELSE /\ last'.error = "none"
                 /\ \E u \in matches :
                        /\ last'.user = u.id
                        /\ users' = (users \ {u}) \cup
                               {[u EXCEPT !.inactive = FALSE, !.activationToken = NULL]}
                 /\ (activate(s).error)' = "InvalidTokenException"]_vars

\* An activation refused for a secret that an earlier activation used up.
C7_Witness ==
    /\ last.op = "activate"
    /\ last.error = "InvalidTokenException"
    /\ last.arg.len = SecretLength
    /\ \E u \in users : ~u.inactive /\ u.activationToken = NULL

----------------------------------------------------------------------------
(* Properties of the password reset *)

\* C8: a password update with the secret of user u changes u's password hash,
\* sets passwordResetToken and activationToken to null and inactive to false,
\* and leaves no token row with userId = u.
C8_UpdatePassword ==
    [][(last'.op = "passwordUpdate" /\ last'.svc = "updatePassword"
            /\ last'.error = "none") =>
        \E u \in users :
            /\ u.passwordResetToken = last'.arg
            /\ u.id = last'.user
            /\ \E v \in users' :
                   /\ v.id = u.id
                   /\ v.password # u.password
                   /\ v.passwordResetToken = NULL
                   /\ v.activationToken = NULL
                   /\ v.inactive = FALSE
                   /\ users' \ {v} = users \ {u}
            /\ \A t \in tokens' : t.userId # u.id]_vars

\* A password update with a mailed secret, by a user who held tokens.
C8_Witness ==
    /\ last.op = "passwordUpdate"
    /\ last.error = "none"
    /\ last.arg.len = SecretLength
    /\ last.destroyed > 0

\* C9: PUT /user/password with a token matching no user answers 403 and never
\* runs the password update: users and tokens are as they were.
C9_UnknownResetToken ==
    [][\A token \in PasswordResetTokens, password \in Passwords :
        (PutPassword(token, password) /\ findByPasswordResetToken(token) = NoUser) =>
            /\ last'.error = "ForbiddenException"
            /\ StatusOf(last'.error) = 403
            /\ last'.svc = "none"
            /\ users' = users
            /\ tokens' = tokens
            /\ rand' = rand]_vars

\* A password update refused for its token while users and tokens exist.
C9_Witness ==
    /\ last.op = "passwordUpdate"
    /\ last.error = "ForbiddenException"
    /\ last.arg = Bogus
    /\ users # {}
    /\ tokens # {}

\* C10: a password reset request for an email of no user fails with
\* NotFoundException, status 404, writes nothing and sends no mail.
C10_ResetUnknownEmail ==
    [][\A email \in ValidEmails, fault \in {"none", "mail"} :
        (PostPassword(email, fault) /\ findByEmail(email) = NoUser) =>
            /\ last'.error = "NotFoundException"
            /\ StatusOf(last'.error) = 404
            /\ last'.mail = "none"
            /\ users' = users
            /\ tokens' = tokens]_vars

\* A reset request refused for its email while another user is registered.
C10_Witness ==
    /\ last.op = "passwordResetRequest"
    /\ last.error = "NotFoundException"
    /\ last.mail = "none"
    /\ users # {}

\* The secrets the users table holds.
StoredSecrets ==
    {u.passwordResetToken : u \in users} \cup {u.activationToken : u \in users}

\* C11: a password reset request for the email of user u stores a fresh,
\* non-empty reset secret on u whether or not the mail goes out; when the mail
\* is rejected the request fails with EmailException, status 502, the secret
\* stays on u, and a password update presenting it right after is accepted.
C11_ResetSecretPersists ==
    [][/\ \A email \in ValidEmails, fault \in {"none", "mail"} :
            (PostPassword(email, fault) /\ findByEmail(email) # NoUser) =>
                LET u == findByEmail(email)
                IN  /\ last'.arg # NULL
                    /\ last'.arg.len > 0
                    /\ last'.arg \notin StoredSecrets
                    /\ users' = (users \ {u}) \cup
                           {[u EXCEPT !.passwordResetToken = last'.arg]}
                    /\ last'.error = IF fault = "mail" THEN "EmailException" ELSE "none"
                    /\ fault = "mail" => StatusOf(last'.error) = 502
       /\ \A password \in ValidPasswords :
            (/\ last.op = "passwordResetRequest"
             /\ last.error = "EmailException"
             /\ PutPassword(last.arg, password)) =>
                /\ last'.error = "none"
                /\ last'.svc = "updatePassword"
                /\ last'.user = last.user]_vars

\* A reset request whose mail was rejected, its secret on the user.
C11_Witness ==
    /\ last.op = "passwordResetRequest"
    /\ last.error = "EmailException"
    /\ last.mail = "rejected"
    /\ \E u \in users :
           u.id = last.user /\ u.passwordResetToken = last.arg
               /\ last.arg.len = SecretLength

----------------------------------------------------------------------------
(* Properties of token expiry *)

\* C12: each run of the cleanup deletes exactly the token rows whose
\* lastUsedAt lies more than 7 days before that moment and leaves every other
\* row, and the users, as they were; a token last used 8 days before fails
\* verify and is gone once the cleanup has run.
C12_Sweep ==
    [][last'.op = "cleanup" =>
        /\ tokens' = {t \in tokens : ~(now - t.lastUsedAt > OneWeek)}
        /\ last'.destroyed =
               Cardinality({t \in tokens : now - t.lastUsedAt > OneWeek})
        /\ users' = users
        /\ \A t \in tokens :
               now - t.lastUsedAt >= 8 * Day =>
                   /\ verify(t.token).error # "none"
                   /\ \A r \in tokens' : r.token # t.token]_vars

\* A cleanup that deleted a token last used 8 days before and kept another.
C12_Witness ==
    /\ last.op = "cleanup"
    /\ last.destroyed > 0
    /\ now = 8 * Day
    /\ tokens # {}

\* C13: a token issued at t = 0 (its lastUsedAt is 0) is accepted at t = 4d
\* and its lastUsedAt becomes 4d; a token last verified at 4d is still
\* accepted at 8d, more than a week after it was issued, and with no
\* verification since is refused at 12d: expiry runs from the last accepted
\* verification.
C13_SlidingExpiry ==
    \A t \in tokens :
        LET r == verify(t.token)
        IN  /\ (now = 4 * Day /\ t.lastUsedAt = 0) =>
                   /\ r.error = "none" /\ r.id = t.userId
                   /\ [t EXCEPT !.lastUsedAt = 4 * Day] \in r.tokens
            /\ (now = 8 * Day /\ t.lastUsedAt = 4 * Day) =>
                   /\ r.error = "none" /\ r.id = t.userId
                   /\ [t EXCEPT !.lastUsedAt = 8 * Day] \in r.tokens
            /\ (now = 12 * Day /\ t.lastUsedAt = 4 * Day) =>
                   /\ r.error # "none"
                   /\ r.tokens = tokens

\* A request at t = 12d left anonymous with a token last verified at t = 4d.
C13_Witness ==
    /\ last.op = "getUser"
    /\ last.auth = 0
    /\ now = 12 * Day
    /\ \E t \in tokens : t.token = last.arg /\ t.lastUsedAt = 4 * Day

----------------------------------------------------------------------------
(* Properties of the token service under interleaving *)

\* C14: over the life of a token row its lastUsedAt never decreases, whatever
\* the interleaving of logins, calls of verify (two of them on the same token
\* included), revocations and cleanups.
C14_LastUsedAtMonotone ==
    [][\A t \in tokens : \A r \in tokens' :
           r.token = t.token => r.lastUsedAt >= t.lastUsedAt]_vars

\* Two calls of verify on one token: one has saved, the other still holds
\* the row as it read it, with the older lastUsedAt.
C14_Witness ==
    /\ last.op = "verify"
    /\ last.svc = "save"
    /\ \E p \in Procs : \E t \in tokens :
           /\ pending[p].pc = "save"
           /\ pending[p].token = t.token
           /\ last.arg = t.token
           /\ pending[p].tokenInDb.lastUsedAt < t.lastUsedAt

\* C15, as stated: while a call of verify has accepted a row and not yet
\* saved it, no other step reads that row for a verify of its own, changes it
\* or deletes it.
C15_VerifyAtomic ==
    [][\A p \in Procs :
        (pending[p].pc = "save" /\ pending'[p] = pending[p]) =>
            /\ \A t \in tokens : t.token = pending[p].token => t \in tokens'
            /\ \A q \in Procs \ {p} :
                   (pending[q].pc = "idle" /\ pending'[q].pc = "save") =>
                       pending'[q].token # pending[p].token]_vars

----------------------------------------------------------------------------
(* Properties of the user rows *)

\* C16: in every reachable state a user with inactive = false has
\* activationToken = null, whatever the sequence of registrations,
\* activations, reset requests, password updates, user updates and deletions.
C16_ActiveHasNoActivationToken ==
    \A u \in users : u.inactive = FALSE => u.activationToken = NULL

\* A password update has just made a user active, and the row holds no
\* activation secret.
C16_Witness ==
    /\ last.op = "passwordUpdate"
    /\ last.error = "none"
    /\ last.svc = "updatePassword"
    /\ \E u \in users :
           u.id = last.user /\ u.inactive = FALSE /\ u.activationToken = NULL

\* C17: a deletion of user u that is carried out removes the row of u and
\* every token row of u, the others staying as they were; afterwards no token
\* has userId = u and verify refuses each of u's former tokens.
C17_DeleteUserCascades ==
    [][(last'.op = "deleteUser" /\ last'.error = "none") =>
        /\ \E u \in users : u.id = last'.user /\ users' = users \ {u}
        /\ \A t \in tokens' : t.userId # last'.user
        /\ tokens' = {t \in tokens : t.userId # last'.user}
        /\ \A t \in tokens :
               t.userId = last'.user =>
                   /\ verify(t.token)'.error # "none"
                   /\ verify(t.token)'.id = 0
                   /\ verify(t.token)'.tokens = tokens']_vars

\* A user holding two tokens deleted the account with one of them.
C17_Witness ==
    /\ last.op = "deleteUser"
    /\ last.error = "none"
    /\ last.destroyed >= 2
    /\ \A u \in users : u.id # last.user

----------------------------------------------------------------------------
(* Properties of the session routes *)

\* C18: a logout is answered 200 whatever it presents; afterwards no row
\* holds the presented token, the other rows and the users are as they were,
\* and deleting the token once more changes nothing; a logout with no
\* Authorization header, or with a token that has no row, changes nothing.
C18_LogoutIdempotent ==
    [][last'.op = "logout" =>
        /\ StatusOf(last'.error) = StatusOk
        /\ users' = users
        /\ \A t \in tokens' : t.token # last'.arg
        /\ tokens' = {t \in tokens : t.token # last'.arg}
        /\ deleteToken(tokens', last'.arg) = tokens'
        /\ (last'.arg = NULL \/ \A t \in tokens : t.token # last'.arg) =>
               tokens' = tokens]_vars

\* A logout with an issued token whose row a previous request had already
\* deleted.
C18_Witness ==
    /\ last.op = "logout"
    /\ last.svc = "deleteToken"
    /\ last.arg \notin {NULL, Bogus}
    /\ last.destroyed = 0
    /\ \A t \in tokens : t.token # last.arg

\* C19: a login creates a token row, answered 200, only when the email is
\* that of an existing user, the password is the one behind the stored hash
\* and the user is active; an invalid or unknown email and a wrong password
\* are answered 401, an inactive user with the right password 403, and then
\* the tokens table is left as it was.
C19_Login ==
    [][\A email \in Emails, password \in Passwords :
        (last'.op = "login" /\ PostAuth(email, password)) =>
            LET found == {u \in users : u.email = email}
                known == email \in ValidEmails /\ found # {}
                match == \E u \in found : \E salt \in 1..MaxRand :
                             u.password = bcryptHash(password, salt)
                active == \E u \in found : u.inactive = FALSE
            IN  /\ (known /\ match /\ active) =>
                       /\ StatusOf(last'.error) = StatusOk
                       /\ \E t \in tokens' \ tokens :
                              /\ tokens' = tokens \cup {t}
                              /\ t.token = last'.arg
                              /\ \E u \in found : t.userId = u.id
                /\ (known /\ match /\ ~active) =>
                       /\ StatusOf(last'.error) = ForbiddenExceptionStatus
                       /\ tokens' = tokens
                /\ (~known \/ ~match) =>
                       /\ StatusOf(last'.error) = AuthExceptionStatus
                       /\ tokens' = tokens
                /\ users' = users]_vars

\* A user who has registered and not activated the account presented the
\* right password and got 403; no token row is held for that user.
C19_Witness ==
    /\ last.op = "login"
    /\ last.error = "ForbiddenException"
    /\ \E u \in users : u.id = last.user /\ u.inactive
    /\ \A t \in tokens : t.userId # last.user

----------------------------------------------------------------------------
(* Properties of the routes that change or delete a user *)

\* C20: PUT and DELETE /users/:id write only when the request presents a
\* token whose row is not expired and belongs to user id; a request with no
\* token, with a token that has no row or an expired one, or with a valid
\* token of another user is answered 403 and leaves every user row, and the
\* token rows of user id, as they were.
C20_OwnerOnly ==
    [][last'.op \in {"updateUser", "deleteUser"} =>
        LET id == last'.user
            owner == \E t \in tokens :
                         /\ t.token = last'.arg
                         /\ t.lastUsedAt > now - OneWeek
                         /\ t.userId = id
        IN  /\ (users' # users \/ last'.svc # "none") => owner
            /\ ~owner =>
                   /\ StatusOf(last'.error) = ForbiddenExceptionStatus
                   /\ users' = users
                   /\ {t \in tokens' : t.userId = id} = {t \in tokens : t.userId = id}]_vars

\* A request on an existing user that presented the valid token of another
\* user and was refused.
C20_Witness ==
    /\ last.op \in {"updateUser", "deleteUser"}
    /\ last.error = "ForbiddenException"
    /\ last.auth # 0
    /\ last.auth # last.user
    /\ \E u \in users : u.id = last.user
    /\ \E t \in tokens : t.token = last.arg /\ t.userId = last.auth /\ t.lastUsedAt = now

----------------------------------------------------------------------------
(* Properties of the cleanup over a store that may reject it *)

\* C21, as stated: when the store rejects a run of the cleanup, the rejection
\* is caught within the callback: no unhandled rejection is raised, the
\* process and its timer go on, and the timer is armed for the next interval.
C21_SweepErrorCaught ==
    [][(last'.op = "cleanup" /\ last'.error # "none") =>
        /\ process'.unhandled = process.unhandled
        /\ process'.exited = FALSE
        /\ process'.timers = process.timers
        /\ nextCleanup' = now + CleanupInterval]_vars

----------------------------------------------------------------------------
(* Properties of verify on rows that are expired or gone *)

\* The token strings with no row: those issued and deleted since, those not
\* issued yet, and one that never will be.
AbsentTokens ==
    ({randomString(TokenLength, k) : k \in 1..MaxRand} \cup {Bogus})
        \ {t.token : t \in tokens}

\* C22: verify fails in one and the same way, and writes nothing, for a token
\* whose row is present but expired and for a token that has no row, deleted
\* or never issued: the caller gets the same outcome in both cases.
C22_ExpiredAsDeleted ==
    \A t \in tokens :
        now - t.lastUsedAt >= OneWeek =>
            /\ verify(t.token).error # "none"
            /\ verify(t.token).id = 0
            /\ verify(t.token).tokens = tokens
            /\ \A s \in AbsentTokens : verify(s) = verify(t.token)

\* One token has just been deleted by a logout while the row of another,
\* expired one is still there.
C22_Witness ==
    /\ last.op = "logout"
    /\ last.destroyed = 1
    /\ last.arg \in AbsentTokens
    /\ \E t \in tokens : now - t.lastUsedAt >= OneWeek

----------------------------------------------------------------------------
(* Properties of the cleanup racing with verify *)

\* C23: however the cleanup and the calls of verify in flight interleave, a
\* call of verify is accepted only on a row whose lastUsedAt lies no more
\* than 7 days and one hour back; a call for a row older than that fails at
\* its lookup, whether or not the cleanup has deleted the row yet.
C23_StalenessBound ==
    [][/\ \A p \in Procs :
            (pending[p].pc = "idle" /\ pending'[p].pc = "save") =>
                /\ pending'[p].tokenInDb \in tokens
                /\ now - pending'[p].tokenInDb.lastUsedAt <= OneWeek + CleanupInterval
       /\ \A t \in tokens :
            (/\ now - t.lastUsedAt > OneWeek + CleanupInterval
             /\ last'.op = "verify" /\ last'.svc = "findOne"
             /\ last'.arg = t.token) =>
                /\ last'.error # "none"
                /\ pending' = pending
                /\ tokens' = tokens]_vars

\* A call of verify has failed on a row 8 days old that the cleanup has not
\* deleted yet, while an earlier call on the same token is still in flight.
C23_Witness ==
    /\ last.op = "verify"
    /\ last.error # "none"
    /\ \E t \in tokens :
           /\ t.token = last.arg
           /\ now - t.lastUsedAt > OneWeek + CleanupInterval
           /\ \E p \in Procs : pending[p].pc = "save" /\ pending[p].token = t.token

----------------------------------------------------------------------------
(* Properties of the reset secret and of the inactive flag *)

\* C24: a reset secret serves once.  A password update accepted with secret
\* s leaves s on no user; a secret newly stored on a user is a fresh draw,
\* so s is never stored again; and a password update presenting a secret
\* that no user holds is refused with 403 and changes no row.
C24_ResetSecretSingleUse ==
    [][/\ (last'.op = "passwordUpdate" /\ last'.error = "none"
              /\ last'.arg # NULL) =>
            \A u \in users' : u.passwordResetToken # last'.arg
       /\ \A u \in users' :
            (/\ u.passwordResetToken # NULL
             /\ \A v \in users : v.passwordResetToken # u.passwordResetToken) =>
                /\ u.passwordResetToken.id > rand
                /\ u.passwordResetToken.id <= rand'
       /\ rand' >= rand
       /\ (/\ last'.op = "passwordUpdate"
           /\ last'.arg # NULL
           /\ \A u \in users : u.passwordResetToken # last'.arg) =>
            /\ StatusOf(last'.error) = ForbiddenExceptionStatus
            /\ users' = users
            /\ tokens' = tokens]_vars

\* A password update was accepted with a mailed secret and the same secret,
\* presented again, has been refused.
C24_Witness ==
    /\ last.op = "passwordUpdate"
    /\ last.error = "ForbiddenException"
    /\ last.arg.len = SecretLength
    /\ last.arg.id >= 1
    /\ \A u \in users : u.passwordResetToken # last.arg
    /\ \E u \in users : u.password.salt > last.arg.id

\* C25: a row that a step adds to the users table is added by a registration
\* and has inactive = true, although the body says inactive: false; and a
\* row goes from inactive = true to false only in an activation presenting
\* its activation secret or in an accepted password update presenting its
\* reset token.
C25_InactiveUntilActivated ==
    [][/\ \A v \in users' :
            (\A u \in users : u.id # v.id) =>
                /\ last'.op = "register"
                /\ v.inactive = TRUE
       /\ \A u \in users : \A v \in users' :
            (v.id = u.id /\ u.inactive = TRUE /\ v.inactive = FALSE) =>
                \/ /\ last'.op = "activate"
                   /\ last'.error = "none"
                   /\ last'.arg # NULL
                   /\ last'.arg = u.activationToken
                \/ /\ last'.op = "passwordUpdate"
                   /\ last'.error = "none"
                   /\ last'.arg = u.passwordResetToken]_vars

\* A registration whose body said inactive: false has stored its row, which
\* is inactive.
C25_Witness ==
    /\ last.op = "register"
    /\ last.error = "none"
    /\ \A body \in Bodies : body.inactive = FALSE
    /\ \E u \in users : u.id = userSeq /\ u.inactive = TRUE /\ u.activationToken # NULL

\* C26: a user whose inactive flag is false keeps it false for as long as
\* the row exists, whatever request or callback runs.
C26_NeverDeactivated ==
    [][\A u \in users : \A v \in users' :
           (v.id = u.id /\ u.inactive = FALSE) => v.inactive = FALSE]_vars

\* An active user who had asked for a password reset has changed the
\* username and is still active.
C26_Witness ==
    /\ last.op = "updateUser"
    /\ last.error = "none"
    /\ \E u \in users :
           /\ u.id = last.user
           /\ u.username = UpdatedUsername
           /\ u.passwordResetToken # NULL
           /\ u.inactive = FALSE

----------------------------------------------------------------------------
(* Properties of the cleanup timer *)

\* C27: the process never has more than one cleanup timer: index sets one
\* when it starts, which is there for as long as the process runs, and no
\* request or callback sets another.
C27_OneSweepTimer ==
    /\ process.timers <= 1
    /\ Running => process.timers = 1

\* The timer's callback has run, days after the process started, and the
\* timer is still the only one.
C27_Witness ==
    /\ last.op = "cleanup"
    /\ nextCleanup > Day
    /\ Running
    /\ process.timers = 1

\* C28: a token row older than 7 days is deleted in the end, by the cleanup
\* if by no logout before it, as long as the process runs: a run of the
\* cleanup that the store rejects is followed by the run of the next
\* interval.
C28_ExpiredEventuallyDeleted ==
    \A k \in 1..(MaxRand + 1) :
        (\E t \in tokens :
             t.token = randomString(TokenLength, k) /\ now - t.lastUsedAt > OneWeek)
            ~> (\/ \A t \in tokens : t.token # randomString(TokenLength, k)
                \/ ~Running)

\* After a run that the store rejected, a run of the cleanup has deleted an
\* expired row.
C28_Witness ==
    /\ last.op = "cleanup"
    /\ last.error = "none"
    /\ last.destroyed >= 1
    /\ process.unhandled >= 1
    /\ Running

-----------------------------------------------------------------------------
(* shared/generator.js: the pagination middleware of GET /api/1.0/users *)

\* The longest text of a query parameter.
MaxLen == 2

\* The characters a query parameter is written with: decimal digits, the
\* minus sign and a letter.
Digits == {"0", "1", "2"}

Chars == Digits \cup {"-", "a"}

\* req.query.page of a request without the parameter; parseInt reads the
\* text of its argument, which for undefined is "undefined".
undefined == <<"undefined">>

RECURSIVE Texts(_)
\* The texts of n characters.
Texts(n) ==
    IF n = 0 THEN {<<>>} ELSE {Append(s, c) : s \in Texts(n - 1), c \in Chars}

\* req.query.page, req.query.size: absent, or the text after the equals sign.
QueryValues == {undefined} \cup UNION {Texts(n) : n \in 0..MaxLen}

\* req.query
Queries == [page : QueryValues, size : QueryValues]

\* The value of a decimal digit.
digit(c) == CASE c = "0" -> 0 [] c = "1" -> 1 [] c = "2" -> 2

RECURSIVE leadingDigits(_)
\* parseInt reads digits up to the first character that is not one.
leadingDigits(string) ==
    IF string = <<>> \/ Head(string) \notin Digits
    THEN <<>>
    ELSE <<Head(string)>> \o leadingDigits(Tail(string))

RECURSIVE decimal(_)
\* The number a text of decimal digits denotes.
decimal(digits) ==
    IF digits = <<>>
    THEN 0
    ELSE 10 * decimal(SubSeq(digits, 1, Len(digits) - 1)) + digit(digits[Len(digits)])

\* Number.NaN, and a number n, as parseInt returns them.
NaN == [isNaN |-> TRUE, number |-> 0]

Number(n) == [isNaN |-> FALSE, number |-> n]

\* parseInt(string): an optional sign, then the leading digits; NaN when
\* there is none.  What follows the leading digits is ignored.
parseInt(string) ==
    LET negative == string # <<>> /\ Head(string) = "-"
        digits == leadingDigits(IF negative THEN Tail(string) ELSE string)
    IN  IF digits = <<>>
        THEN NaN
        ELSE Number(IF negative THEN 0 - decimal(digits) ELSE decimal(digits))

\* pagination: req.pagination = {page, size}
pagination(query) ==
    LET pageAsNumber == parseInt(query.page)
        sizeAsNumber == parseInt(query.size)
        page == IF pageAsNumber.isNaN THEN 0 ELSE pageAsNumber.number
        size == IF sizeAsNumber.isNaN THEN 10 ELSE sizeAsNumber.number
    IN  [page |-> IF page < 0 THEN 0 ELSE page,
         size |-> IF size < 1 \/ size > 20 THEN 10 ELSE size]

\* A request GET /api/1.0/users?page=..&size=.. has arrived.
InitPagination ==
    /\ users = {}
    /\ userSeq = 0
    /\ tokens = {}
    /\ now = 0
    /\ nextCleanup = CleanupInterval
    /\ rand = 0
    /\ \E query \in Queries :
           last = Done("query", "none", [query |-> query], 0, 0, "none", "none", 0)
    /\ pending = [p \in Procs |-> NoCall]
    /\ process = scheduleCleanup(Started)

\* The middleware runs and hands the request on.
Pagination ==
    /\ last.op = "query"
    /\ last' = Done("pagination", "none",
                    [query |-> last.arg.query, pagination |-> pagination(last.arg.query)],
                    0, 0, "none", "none", 0)
    /\ UNCHANGED <<users, userSeq, tokens, now, nextCleanup, rand, pending, process>>

NextPagination == Pagination

SpecPagination == InitPagination /\ [][NextPagination]_vars

\* C29: the page of req.pagination is 0 when the page parameter is not a
\* number or is negative, and the integer given otherwise; the size is 10
\* when the size parameter is not a number, is below 1 or above 20, and the
\* integer given otherwise.  A parameter is a number when its text is
\* decimal digits after an optional minus sign.
C29_PaginationNormalised ==
    last.op = "pagination" =>
        LET query == last.arg.query
            unsigned(v) == IF v # <<>> /\ Head(v) = "-" THEN Tail(v) ELSE v
            numeric(v) == /\ unsigned(v) # <<>>
                          /\ \A i \in 1..Len(unsigned(v)) : unsigned(v)[i] \in Digits
            integer(v) == IF Head(v) = "-" THEN 0 - decimal(Tail(v)) ELSE decimal(v)
        IN  /\ last.arg.pagination.page =
                   IF ~numeric(query.page) \/ integer(query.page) < 0
                   THEN 0
                   ELSE integer(query.page)
            /\ last.arg.pagination.size =
                   IF \/ ~numeric(query.size)
                      \/ integer(query.size) < 1
                      \/ integer(query.size) > 20
                   THEN 10
                   ELSE integer(query.size)

\* C30: a token row that the cleanup, deleteToken or clearTokens has deleted
\* is never in the table again: whatever step is taken, a token drawn
\* earlier with no row stays without one.  The save of a verify that read the
\* row before leaves each row as it was or with lastUsedAt set to the time of
\* the save, and adds none.
C30_DeletedStaysDeleted ==
    [][/\ \A k \in 1..rand :
              (\A t \in tokens : t.token # randomString(TokenLength, k))
                  => (\A t \in tokens' : t.token # randomString(TokenLength, k))
       /\ \A p \in Procs :
              (pending[p].pc = "save" /\ verifySave(p))
                  => \A t \in tokens' :
                         \E u \in tokens :
                             \/ t = u
                             \/ /\ u.token = pending[p].token
                                /\ t = [u EXCEPT !.lastUsedAt = now]]_vars

\* The save of a verify has run on a row deleted since the verify read it,
\* and the table is without the row.
C30_Witness ==
    /\ last.op = "verify"
    /\ last.svc = "save"
    /\ \A t \in tokens : t.token # last.arg

\* C31: PUT /api/1.0/user/password changes the password of a user only when
\* the passwordResetToken of the request is a secret that passwordResetRequest
\* stored on that user and that no password update has used since; a request
\* whose passwordResetToken is null changes the password of no user.
C31_ResetOnlyWithStoredSecret ==
    [][\A u \in users :
           (\E v \in users' : v.id = u.id /\ v.password # u.password)
               => /\ last'.op = "passwordUpdate"
                  /\ last'.arg # NULL
                  /\ u.passwordResetToken = last'.arg]_vars

\* C32: once a password update for a user has completed, no token is in the
\* table for that user from a login that checked a password the update
\* replaced: when a login inserts its token, the password it checked is the
\* user's password, or an update that has yet to clear the user's tokens is in
\* flight.
C32_NoSessionOfOldPassword ==
    [][\A p \in Procs :
           (/\ pending[p].pc = "createToken"
            /\ loginCreateToken(p)
            /\ tokens' # tokens)
               => \A u \in users :
                      u.id = pending[p].user.id
                          => \/ bcryptCompare(pending[p].password, u.password)
                             \/ \E q \in Procs :
                                    /\ pending[q].pc = "clearTokens"
                                    /\ pending[q].user.id = u.id]_vars

\* C33: no two user rows have the same email, also when two registrations
\* for one email have both passed checkEmail before either inserts.
C33_EmailUnique ==
    \A u \in users : \A v \in users : u.email = v.email => u.id = v.id

\* A registration that had passed checkEmail has failed at the insert: the
\* email had been inserted by another registration in the meantime.
C33_Witness ==
    /\ last.op = "register"
    /\ last.svc = "save"
    /\ last.error # "none"
    /\ last.mail = "none"
    /\ last.user # 0
    /\ Cardinality(users) >= 1

\* C34: a registration ends in EmailException only when the activation mail
\* was handed to the transporter and rejected; a failure of the insert or of
\* the commit ends in another error.
C34_EmailExceptionOnlyForMail ==
    (last.op = "register" /\ last.error = "EmailException") => last.mail = "rejected"

\* C35: a user has one reset secret at a time.  A password reset request for
\* a user that has a secret leaves no user with that secret and stores the
\* one it drew; a password update is accepted only with the secret its user
\* has at that time, and one with a secret no user has changes no row.
C35_LatestSecretOnly ==
    [][/\ \A u \in users :
              (/\ last'.op = "passwordResetRequest"
               /\ last'.user = u.id
               /\ u.passwordResetToken # NULL)
                  => /\ \A v \in users' : v.passwordResetToken # u.passwordResetToken
                     /\ \E v \in users' :
                            /\ v.id = u.id
                            /\ v.passwordResetToken = last'.arg
                            /\ last'.arg # NULL
       /\ last'.op = "passwordUpdate"
              => IF \E u \in users : u.passwordResetToken = last'.arg
                 THEN last'.error = "none"
                          => \E u \in users :
                                 /\ u.id = last'.user
                                 /\ u.passwordResetToken = last'.arg
                 ELSE last'.error # "none" /\ users' = users /\ tokens' = tokens]_vars

\* The second request has replaced the secret of the first, and a password
\* update with the secret of the first has been refused.
C35_Witness ==
    /\ last.op = "passwordUpdate"
    /\ last.error # "none"
    /\ last.arg = randomString(SecretLength, 3)
    /\ \E u \in users : u.passwordResetToken = randomString(SecretLength, 4)

\* C36: a logout deletes no row but the one of the token presented, and a
\* password update no row but those of its user: every other row is the same
\* afterwards and verify answers for it as before; no step of the two adds a
\* row.
C36_RevokeFrame ==
    [][/\ last'.op = "logout"
              => /\ tokens' \subseteq tokens
                 /\ \A t \in tokens :
                        t.token # last'.arg
                            => /\ t \in tokens'
                               /\ verify(t.token)'.error = verify(t.token).error
       /\ last'.op = "passwordUpdate"
              => /\ tokens' \subseteq tokens
                 /\ \A t \in tokens :
                        (last'.error # "none" \/ t.userId # last'.user)
                            => /\ t \in tokens'
                               /\ verify(t.token)'.error = verify(t.token).error]_vars

\* A password update has deleted the sessions of its user, and a session of
\* the other user is there and verifies.
C36_Witness ==
    /\ last.op = "passwordUpdate"
    /\ last.error = "none"
    /\ last.arg # NULL
    /\ last.destroyed >= 1
    /\ \E t \in tokens : t.userId # last.user /\ verify(t.token).error = "none"

\* C37: the userId of every token row is the id of a user row, also when a
\* login has checked the credentials of a user that is deleted before the
\* login inserts its token.
C37_TokenHasUser ==
    \A t \in tokens : \E u \in users : u.id = t.userId

\* A login that had checked the credentials has come to insert its token
\* after the user was deleted, and the table has no row for it.
C37_Witness ==
    /\ last.op = "login"
    /\ last.svc = "createToken"
    /\ last.error # "none"
    /\ \A u \in users : u.id # last.user
    /\ \A t \in tokens : t.userId # last.user

\* C38: no token row is of a user whose inactive flag is true, after every
\* sequence of registrations, activations, logins, password reset requests,
\* password updates, logouts and runs of the cleanup.
C38_NoSessionWhileInactive ==
    \A t \in tokens : \A u \in users : u.id = t.userId => ~u.inactive

\* A login with the right password of a user that has not activated the
\* account has been refused, and the user has no session.
C38_Witness ==
    /\ last.op = "login"
    /\ last.error = "ForbiddenException"
    /\ \E u \in users : u.id = last.user /\ u.inactive
    /\ \A t \in tokens : t.userId # last.user

====
